---- MODULE Spec2Model ----
(***************************************************************************)
(* Model of package fliptest (src/fliptest.go): the FlipTester lifecycle   *)
(* New -> Test (CreateStack, watchStack, callLamda with retries,           *)
(* DeleteStack).  The cloud provider (Cloudformation, Lambda) is the       *)
(* environment: every remote call picks its answer nondeterministically.   *)
(*                                                                         *)
(* Conventions                                                             *)
(*  - a Go string that the code concatenates or searches is a tuple of     *)
(*    tokens; "" is <<>>.  An error is the tuple of tokens of err.Error()  *)
(*    and the nil error is <<>>.                                           *)
(*  - a nil pointer is the string "nil".                                   *)
(*  - trace, polled, answers and nOps are history variables: they record   *)
(*    the remote calls the code issues and what they answered, and are     *)
(*    never read by the modelled code.  answers holds, for the operation   *)
(*    that runs or returned last, one entry per call: the error (or NoErr) *)
(*    that getTemplateBody ("template"), the create request ("create"), a  *)
(*    readiness poll ("poll"), getStackInfo ("describe"), callLamda from   *)
(*    Invoke on ("invoke") or the delete request ("delete") ended with.    *)
(*  - env names the environment of a behaviour and never changes: "full"   *)
(*    answers every remote call in every way, "steady" never answers with  *)
(*    a transient fault and reports fewer stack statuses.                  *)
(*                                                                         *)
(* Spec explores one operation on a new tester under the full environment, *)
(* SpecSeq sequences of operations under the steady one, SpecNew only New  *)
(* on every input.                                                         *)
(***************************************************************************)
EXTENDS Integers, Sequences, FiniteSets, TLC

VARIABLES input, env, ft, pc, op, ret, err, i, count, stack, polled, trace,
          answers, nOps, payload, got

vars == <<input, env, ft, pc, op, ret, err, i, count, stack, polled, trace,
         answers, nOps, payload, got>>

(***************************************************************************)
(* Bounds of the model.                                                    *)
(***************************************************************************)
\* number of public operations (Test, CreateStack, DeleteStack) called one
\* after the other on an instance, in the specification of call sequences
MaxOps == 2
\* longest result list handed to checkResults in the specification of the
\* validator
MaxResults == 2
\* CreateStack passes maxtries = 90 to watchStack (src/fliptest.go:381); the
\* model runs the same loop with a scaled-down number of attempts.
maxtries == 3

(***************************************************************************)
(* Program constants.                                                      *)
(***************************************************************************)
\* for i := 0; i < 5; i++   (src/fliptest.go:441)
RetryBudget == 5
\* maxTime := 6.00000000   (src/fliptest.go:255)
maxTime == 6
\* input.InitialSleepTimeSeconds = 40   (src/fliptest.go:112)
DefaultInitialSleep == 40
\* input.PostEventSleepTimeSeconds = 20   (src/fliptest.go:116)
DefaultPostEventSleep == 20
\* const DefaultStackPrefix   (src/fliptest.go:22)
DefaultStackPrefix == <<"ISS-GR-egress-tester-">>

NoErr == <<>>
Nil == "nil"

\* strings.Contains(err.Error(), tok), at token granularity
Contains(text, tok) == \E k \in 1..Len(text) : text[k] = tok

(***************************************************************************)
(* Data.                                                                   *)
(***************************************************************************)
TestUrl(n, u) == [Name |-> n, Url |-> u]

\* the three defaults appended by New, in the order of the appends
DefaultTestUrls ==
    << TestUrl("gopkg.in", "https://gopkg.in"),
       TestUrl("google", "https://www.google.com"),
       TestUrl("time", "https://www.nist.gov") >>

TestResult(n, t, s, u) ==
    [Name |-> n, ElapsedTimeS |-> t, Message |-> "m", Success |-> s,
     Url |-> u, ResponseCode |-> 200]

\* a log message: format string, integer argument, string argument
Msg(f) == [fmt |-> f, n |-> 0, s |-> <<>>]
MsgN(f, n) == [fmt |-> f, n |-> n, s |-> <<>>]
MsgS(f, s) == [fmt |-> f, n |-> 0, s |-> s]

\* zero value of the FlipTester struct
ZeroFlipTester ==
    [ subnetId |-> "", vpcId |-> "", stackPrefix |-> <<>>,
      stackTemplateFilename |-> "",
      TestResults |-> <<>>,
      testEvent |-> [RequestType |-> "", TestUrls |-> <<>>],
      Passed |-> FALSE, sess |-> Nil,
      RetainStack |-> FALSE, stackCreated |-> FALSE,
      StackName |-> <<>>, functionName |-> "",
      log |-> <<>>, context |-> "",
      initialSleepTimeSeconds |-> 0, postEventSleepTimeSeconds |-> 0 ]

\* a plausible bug: the new entry is put in front of the log
logMessage_Prepend(f, msg) ==
    [f EXCEPT !.log = <<[context |-> f.context,
                         StackName |-> f.StackName,
                         msg |-> msg]>> \o @]

\* ft.logMessage(msg): the timestamp is informational and left out
logMessage(f, msg) ==
    [f EXCEPT !.log = Append(@, [context |-> f.context,
                                 StackName |-> f.StackName,
                                 msg |-> msg])]

\* json.Marshal(ft.testEvent) (line 284): the directive, then name and url
\* of each probe in list order
RECURSIVE MarshalUrls(_)
MarshalUrls(urls) ==
    IF urls = <<>> THEN <<>>
    ELSE <<"Name", urls[1].Name, "Url", urls[1].Url>> \o MarshalUrls(Tail(urls))
MarshalEvent(ev) ==
    <<"RequestType", ev.RequestType, "TestUrls">> \o MarshalUrls(ev.TestUrls)

\* the pieces of the string GetLog returns: a log line, or a newline
LineOf(entry) == [newline |-> FALSE, line |-> entry]
Newline ==
    [newline |-> TRUE,
     line |-> [context |-> "", StackName |-> <<>>, msg |-> Msg("")]]

\* a plausible bug: every line is ended by a newline, the last one too
RECURSIVE Join_Terminated(_)
Join_Terminated(lines) ==
    IF lines = <<>> THEN <<>>
    ELSE <<LineOf(lines[1]), Newline>> \o Join_Terminated(Tail(lines))

\* strings.Join(lines, "\n") (line 484)
RECURSIVE Join(_)
Join(lines) ==
    IF lines = <<>> THEN <<>>
    ELSE IF Len(lines) = 1 THEN <<LineOf(lines[1])>>
    ELSE <<LineOf(lines[1]), Newline>> \o Join(Tail(lines))

(***************************************************************************)
(* Inputs of New.                                                          *)
(***************************************************************************)
Sessions == {Nil, "sess"}
StackNames == {<<>>, <<"stack-A">>}
SubnetIds == {"", "subnet-1"}
VpcIds == {"", "vpc-1"}
StackPrefixes == {<<>>, <<"pfx-">>}
TemplateFilenames == {"", "tmpl.yml"}
UrlLists ==
    { <<>>,
      <<TestUrl("cnn", "https://www.cnn.com/")>>,
      <<TestUrl("mysite", "http://www.mysite.org/getdata/"),
        TestUrl("cnn", "https://www.cnn.com/")>> }
Contexts == {"", "acct"}
InitialSleeps == {0, 7}
PostEventSleeps == {0, 3}

\* every FlipTesterInput the model constructs a tester from
FlipTesterInput ==
    [ SubnetId : SubnetIds, VpcId : VpcIds, StackPrefix : StackPrefixes,
      StackTemplateFilename : TemplateFilenames, StackName : StackNames,
      TestUrls : UrlLists, RetainStack : BOOLEAN, Session : Sessions,
      Context : Contexts, InitialSleepTimeSeconds : InitialSleeps,
      PostEventSleepTimeSeconds : PostEventSleeps ]

\* the inputs the lifecycle specification starts from: the fields that only
\* feed log texts and request parameters are left at their zero values
LifecycleInput ==
    { in \in FlipTesterInput :
        /\ in.StackPrefix = <<>>
        /\ in.Context = ""
        /\ in.InitialSleepTimeSeconds = 0
        /\ in.PostEventSleepTimeSeconds = 0
        /\ Len(in.TestUrls) < 2
        /\ (in.SubnetId = "") = (in.VpcId = "") \/ in.StackName = <<>> }

\* the inputs the specification of call sequences starts from
SeqInput ==
    { in \in LifecycleInput :
        /\ in.Session # Nil
        /\ in.TestUrls = <<>>
        /\ in.StackName # <<>> \/ (in.SubnetId # "" /\ in.VpcId # "") }

(***************************************************************************)
(* New (src/fliptest.go:100-172), its parts as operators.                  *)
(***************************************************************************)
\* input after the defaults New writes back into it (lines 107-118)
NewDefaults(in) ==
    [in EXCEPT
       !.Context = IF @ = "" THEN "Default" ELSE @,
       !.InitialSleepTimeSeconds = IF @ = 0 THEN DefaultInitialSleep ELSE @,
       !.PostEventSleepTimeSeconds = IF @ = 0 THEN DefaultPostEventSleep ELSE @]

\* the error of the required-field checks of the new-stack path, NoErr if none
NewRequiredFieldErr(in) ==
    IF in.StackName # <<>> THEN NoErr
    ELSE IF in.SubnetId = ""
         THEN <<"SubnetId is a required input field if StackName is not supplied">>
    ELSE IF in.VpcId = ""
         THEN <<"VpcId is a required input field if StackName is not supplied">>
    ELSE NoErr

\* New dereferences the nil named result fliptester when input.Session is nil
\* (line 102): the call panics before anything else happens
NewPanics(in) == in.Session = Nil

\* a plausible bug: the defaults are appended whatever the caller supplied
NewTestUrls_DefaultsFirst(urls) == DefaultTestUrls \o urls

\* the probe list of the test event (lines 146-170)
NewTestUrls(urls) == IF Len(urls) < 1 THEN DefaultTestUrls ELSE urls

\* a plausible bug: the created-flag is set on the new-stack path as well
NewFlipTester_AlwaysCreated(in0) ==
    LET in == NewDefaults(in0)
        f0 == [ZeroFlipTester EXCEPT
                 !.sess = in.Session,
                 !.context = in.Context,
                 !.initialSleepTimeSeconds = in.InitialSleepTimeSeconds,
                 !.postEventSleepTimeSeconds = in.PostEventSleepTimeSeconds,
                 !.stackCreated = TRUE]
        f1 == IF in.StackName = <<>>
              THEN [f0 EXCEPT
                      !.subnetId = in.SubnetId,
                      !.vpcId = in.VpcId,
                      !.stackPrefix = IF in.StackPrefix = <<>>
                                      THEN DefaultStackPrefix
                                      ELSE in.StackPrefix,
                      !.stackTemplateFilename = in.StackTemplateFilename]
              ELSE [logMessage(f0, Msg("using existing stack")) EXCEPT
                      !.StackName = in.StackName]
    IN [f1 EXCEPT
          !.RetainStack = in.RetainStack,
          !.testEvent = [RequestType |-> "RunAll",
                         TestUrls |-> NewTestUrls(in.TestUrls)]]

\* the FlipTester New builds from an input that passed the checks
NewFlipTester(in0) ==
    LET in == NewDefaults(in0)
        f0 == [ZeroFlipTester EXCEPT
                 !.sess = in.Session,
                 !.context = in.Context,
                 !.initialSleepTimeSeconds = in.InitialSleepTimeSeconds,
                 !.postEventSleepTimeSeconds = in.PostEventSleepTimeSeconds]
        f1 == IF in.StackName = <<>>
              THEN [f0 EXCEPT
                      !.subnetId = in.SubnetId,
                      !.vpcId = in.VpcId,
                      !.stackPrefix = IF in.StackPrefix = <<>>
                                      THEN DefaultStackPrefix
                                      ELSE in.StackPrefix,
                      !.stackTemplateFilename = in.StackTemplateFilename]
              ELSE [logMessage(f0, Msg("using existing stack")) EXCEPT
                      !.StackName = in.StackName,
                      !.stackCreated = TRUE]
    IN [f1 EXCEPT
          !.RetainStack = in.RetainStack,
          !.testEvent = [RequestType |-> "RunAll",
                         TestUrls |-> NewTestUrls(in.TestUrls)]]

NoRet == [op |-> "none", err |-> NoErr]
\* an entry of answers: the call, the error it ended with and, for a
\* DescribeStacks of getStackInfo or an Invoke, what the provider sent, for
\* a delete request the StackName it was made for
AnswerWith(c, e, d) == [call |-> c, err |-> e, data |-> d]
Answer(c, e) == AnswerWith(c, e, <<>>)
\* the history as after one more answer a; only the latest answer keeps
\* what the provider sent
Answered(as, a) ==
    Append([k \in 1..Len(as) |-> [as[k] EXCEPT !.data = <<>>]], a)
\* a nil *cloudformation.Stack
NilStack == [StackName |-> <<>>, StackStatus |-> Nil]

\* the state before New is called on input in
InitWith(in, e) ==
    /\ input = in
    /\ env = e
    /\ ft = ZeroFlipTester
    /\ pc = "start"
    /\ op = "none"
    /\ ret = NoRet
    /\ err = NoErr
    /\ i = 0
    /\ count = 0
    /\ stack = NilStack
    /\ polled = <<>>
    /\ trace = <<>>
    /\ answers = <<>>
    /\ nOps = 0
    /\ payload = <<>>
    /\ got = <<>>

Init == \E in \in LifecycleInput : InitWith(in, "full")

InitSeq == \E in \in SeqInput : InitWith(in, "steady")

InitNew == \E in \in FlipTesterInput : InitWith(in, "full")

\* New(input): pc becomes "panic" (nil dereference), "newerr" (error and nil
\* tester returned) or "ready" (tester returned)
New ==
    /\ pc = "start"
    /\ IF NewPanics(input)
       THEN /\ pc' = "panic"
            /\ UNCHANGED <<input, ft, ret>>
       ELSE /\ input' = NewDefaults(input)
            /\ IF NewRequiredFieldErr(input) # NoErr
               THEN /\ pc' = "newerr"
                    /\ ret' = [op |-> "New", err |-> NewRequiredFieldErr(input)]
                    /\ UNCHANGED ft
               ELSE /\ pc' = "ready"
                    /\ ret' = [op |-> "New", err |-> NoErr]
                    /\ ft' = NewFlipTester(input)
    /\ UNCHANGED <<env, op, err, i, count, stack, polled, trace, answers, nOps>>
    /\ UNCHANGED <<payload, got>>

NextNew == New

SpecNew == InitNew /\ [][NextNew]_vars

(***************************************************************************)
(* The environment: what the remote calls can answer.                      *)
(***************************************************************************)
\* error texts of the AWS SDK: one carrying the token "Service", one not
RemoteErrs == { <<"Service", "Exception">>, <<"AccessDenied">> }
\* error texts of the DescribeStacks call of getStackInfo, likewise
DescribeErrs == { <<"Service", "Unavailable">>, <<"AccessDenied">> }
\* ioutil.ReadFile failing on the template file
ReadFileErr == <<"open", "no such file or directory">>
\* json.Unmarshal failing on the response payload
UnmarshalErr == <<"invalid character">>

\* the random 8-digit suffixes rand.Intn may draw
Randos == { <<"00000042">> }

\* the switch of watchStack returns on these statuses (lines 511-526)
IsTerminal_NoComplete(status) ==
    status \in { "ROLLBACK_IN_PROGRESS", "ROLLBACK_COMPLETE",
                 "DELETE_IN_PROGRESS", "DELETE_COMPLETE", "CREATE_FAILED",
                 "DELETE_FAILED" }

IsTerminal(status) ==
    status \in { "CREATE_COMPLETE", "ROLLBACK_IN_PROGRESS", "ROLLBACK_COMPLETE",
                 "DELETE_IN_PROGRESS", "DELETE_COMPLETE", "CREATE_FAILED",
                 "DELETE_FAILED" }

\* the statuses DescribeStacks may report
StackStatuses ==
    { "CREATE_IN_PROGRESS", "CREATE_COMPLETE", "ROLLBACK_IN_PROGRESS",
      "ROLLBACK_COMPLETE", "DELETE_IN_PROGRESS", "DELETE_COMPLETE",
      "CREATE_FAILED", "DELETE_FAILED" }

\* the StackId the provider returns for a stack name, and the name it reports
\* for that id in DescribeStacks
StackIdOf(name) == <<"arn:">> \o name
StackNameOf(id) == IF Len(id) > 0 /\ id[1] = "arn:" THEN Tail(id) ELSE id

\* a cloudformation.Output, and the Outputs lists a stack may have
Output(k, v) == [OutputKey |-> k, OutputValue |-> v]
OutputLists ==
    { <<Output("FunctionName", "fn-1")>>,
      <<Output("Other", "x")>>,
      <<Output("FunctionName", "fn-1"), Output("Other", "x")>>,
      <<Output("Other", "x"), Output("FunctionName", "fn-1")>> }

\* answers of DescribeStacks as getStackInfo reads them: an error, no
\* stack, a stack without outputs, or the outputs of the first stack
DescribeAnswers ==
    [kind : {"err"}, err : DescribeErrs]
      \cup { [kind |-> "nostacks"], [kind |-> "nooutputs"] }
      \cup [kind : {"outputs"}, outputs : OutputLists]

\* result lists the probe may return
ResultLists ==
    { <<>>,
      <<TestResult("a", 1, TRUE, "https://a")>>,
      <<TestResult("a", 1, FALSE, "https://a")>>,
      <<TestResult("a", maxTime, TRUE, "https://a"),
        TestResult("b", maxTime + 1, TRUE, "https://b")>> }

\* answers of lambda Invoke: an error, a payload that does not decode, or a
\* payload that decodes to a result list
InvokeAnswers ==
    [kind : {"err"}, err : RemoteErrs]
      \cup { [kind |-> "undecodable"] }
      \cup [kind : {"results"}, results : ResultLists]

\* the answers of the environment env
EnvRemoteErrs ==
    IF env = "full" THEN RemoteErrs
    ELSE {e \in RemoteErrs : ~Contains(e, "Service")}
EnvStackStatuses ==
    IF env = "full" THEN StackStatuses
    ELSE {"CREATE_IN_PROGRESS", "CREATE_COMPLETE", "CREATE_FAILED"}
EnvDescribeAnswers ==
    {a \in DescribeAnswers :
       a.kind = "err" /\ env # "full" => ~Contains(a.err, "Service")}
EnvInvokeAnswers ==
    {a \in InvokeAnswers :
       /\ a.kind = "err" => a.err \in EnvRemoteErrs
       /\ a.kind = "results" /\ env # "full" => Len(a.results) = 1}
\* operations a tester may be asked for, one after the other
OpsAllowed == IF env = "full" THEN 1 ELSE MaxOps

(***************************************************************************)
(* checkResults (src/fliptest.go:253-272).                                 *)
(***************************************************************************)
\* a plausible bug: a result at the threshold is taken as too slow
ResultVerdict_AtThreshold(r) ==
    IF ~r.Success THEN 1
    ELSE IF r.ElapsedTimeS >= maxTime THEN 2
    ELSE 0

\* the loop's test on one result: 0 passes, 1 "test failed", 2 "took too long"
ResultVerdict(r) ==
    IF ~r.Success THEN 1
    ELSE IF r.ElapsedTimeS > maxTime THEN 2
    ELSE 0

\* the loop of lines 256-270 from index k on: the tester with the message
\* logged, and the error
RECURSIVE checkResultsFrom(_, _, _)
checkResultsFrom(f, results, k) ==
    IF k > Len(results) THEN [ft |-> f, err |-> NoErr]
    ELSE IF ResultVerdict(results[k]) = 1
         THEN [ft |-> logMessage(f, MsgS("test failed: %s", <<results[k].Url>>)),
               err |-> <<"test failed:", results[k].Url>>]
    ELSE IF ResultVerdict(results[k]) = 2
         THEN [ft |-> logMessage(f, MsgS("test took too long: %s", <<results[k].Url>>)),
               err |-> <<"test took too long:", results[k].Url>>]
    ELSE checkResultsFrom(f, results, k + 1)

\* checkResults: the tester with the message logged, and the error
checkResults(f, results) == checkResultsFrom(f, results, 1)

\* the results a decoded payload may hold, and the lists of up to
\* MaxResults of them
ProbeResults ==
    { TestResult("t", t, s, u) :
        t \in {maxTime, maxTime + 1}, s \in BOOLEAN,
        u \in {"https://a", "https://b"} }
AllResultLists == UNION { [1..n -> ProbeResults] : n \in 0..MaxResults }

\* callLamda after the payload was decoded into TestResults (line 306)
InitValidate ==
    \E in \in SeqInput, rs \in AllResultLists :
       /\ input = NewDefaults(in)
       /\ env = "full"
       /\ ft = [NewFlipTester(in) EXCEPT !.TestResults = rs]
       /\ pc = "validate"
       /\ op = "Test"
       /\ ret = [op |-> "New", err |-> NoErr]
       /\ err = NoErr
       /\ i = 0
       /\ count = 0
       /\ stack = NilStack
       /\ polled = <<>>
       /\ trace = <<"Test">>
       /\ answers = <<>>
       /\ nOps = 1
       /\ payload = <<>>
       /\ got = <<>>

\* callLamda line 312: checkResults on the decoded list
Validate ==
    /\ pc = "validate"
    /\ LET cr == checkResults(ft, ft.TestResults)
       IN /\ ft' = cr.ft
          /\ err' = cr.err
    /\ pc' = "validated"
    /\ UNCHANGED <<input, env, op, ret, i, count, stack, polled, trace,
                   answers, nOps>>
    /\ UNCHANGED <<payload, got>>

NextValidate == Validate

SpecValidate == InitValidate /\ [][NextValidate]_vars

(***************************************************************************)
(* History: the remote calls and sleeps of the operations, in order.       *)
(***************************************************************************)
OpNames == {"Test", "CreateStack", "DeleteStack", "GetLog"}

\* index in tr of the start of the operation begun last, 0 if none
LastStart(tr) ==
    IF \E k \in 1..Len(tr) : tr[k] \in OpNames
    THEN CHOOSE k \in 1..Len(tr) :
           /\ tr[k] \in OpNames
           /\ \A j \in (k+1)..Len(tr) : tr[j] \notin OpNames
    ELSE 0

\* the events of the operation begun last
LastCall(tr) ==
    IF LastStart(tr) = 0 THEN <<>> ELSE SubSeq(tr, LastStart(tr), Len(tr))

\* number of occurrences of event ev in tr
Count(tr, ev) == Cardinality({k \in 1..Len(tr) : tr[k] = ev})

(***************************************************************************)
(* Test (src/fliptest.go:420-479): the code between two remote calls.      *)
(* These formulas set ft, pc, ret, err, i and trace.                       *)
(***************************************************************************)
\* the operation returns e to its caller
Return(f, e, tr) ==
    /\ ft' = f
    /\ pc' = "ready"
    /\ ret' = [op |-> op, err |-> e]
    /\ err' = e
    /\ trace' = Append(tr, "return")
    /\ UNCHANGED i

\* a plausible bug: the stack is deleted whatever RetainStack says
WantsDelete_Always(f) == TRUE

\* if !ft.RetainStack (line 460)
WantsDelete(f) == ~f.RetainStack

\* lines 460-478, reached with err == nil: delete or retain
Teardown(f, tr) ==
    IF WantsDelete(f)
    THEN /\ ft' = logMessage(f, Msg("deleting stack"))
         /\ pc' = "delete"
         /\ err' = NoErr
         /\ trace' = tr
         /\ UNCHANGED <<ret, i>>
    ELSE Return(logMessage(logMessage(f, Msg("retaining stack")),
                           Msg("tests complete")), NoErr, tr)

\* a plausible bug: Test() puts the default probes back
StartInvocation_DefaultProbes(f, tr) ==
    /\ ft' = logMessage(
               logMessage([f EXCEPT !.testEvent.TestUrls = DefaultTestUrls],
                          MsgN("sleeping %d seconds before calling lambda",
                               f.initialSleepTimeSeconds)),
               Msg("calling lambda"))
    /\ pc' = "call"
    /\ i' = -1
    /\ err' = NoErr
    /\ trace' = Append(tr, "sleep:initial")
    /\ UNCHANGED ret

\* a plausible bug: callLamda is called before the grace sleep
StartInvocation_NoSleep(f, tr) ==
    /\ ft' = logMessage(
               logMessage(f, MsgN("sleeping %d seconds before calling lambda",
                                  f.initialSleepTimeSeconds)),
               Msg("calling lambda"))
    /\ pc' = "call"
    /\ i' = -1
    /\ err' = NoErr
    /\ trace' = tr
    /\ UNCHANGED ret

\* lines 431-438: the grace sleep before the first callLamda
StartInvocation(f, tr) ==
    /\ ft' = logMessage(
               logMessage(f, MsgN("sleeping %d seconds before calling lambda",
                                  f.initialSleepTimeSeconds)),
               Msg("calling lambda"))
    /\ pc' = "call"
    /\ i' = -1
    /\ err' = NoErr
    /\ trace' = Append(tr, "sleep:initial")
    /\ UNCHANGED ret

\* a plausible bug: the created-flag is set before the error is looked at
AfterCreateStack_MarkCreated(f, e, tr) ==
    LET f1 == [f EXCEPT !.stackCreated = TRUE] IN
    IF op = "CreateStack" THEN Return(f1, e, tr)
    ELSE IF e # NoErr THEN Return(f1, e, tr)
    ELSE StartInvocation(f1, tr)

\* a plausible bug: Test tears the stack down after a failed creation
AfterCreateStack_Teardown(f, e, tr) ==
    IF op = "CreateStack" THEN Return(f, e, tr)
    ELSE IF e = NoErr /\ f.stackCreated THEN StartInvocation(f, tr)
    ELSE Teardown(f, tr)

\* CreateStack returned e: to the caller, or into Test at line 427
AfterCreateStack(f, e, tr) ==
    IF op = "CreateStack" THEN Return(f, e, tr)
    ELSE IF e # NoErr THEN Return(f, e, tr)
    ELSE IF f.stackCreated THEN StartInvocation(f, tr)
    ELSE Teardown(f, tr)

\* a plausible bug: the loop bound is off by one
ShouldRetry_OffByOne(e, idx) ==
    /\ idx <= RetryBudget
    /\ e # NoErr
    /\ Contains(e, "Service")

\* a plausible bug: every error is retried
ShouldRetry_AnyError(e, idx) ==
    /\ idx < RetryBudget
    /\ e # NoErr

\* the retry test of the loop at lines 441-454, idx the loop index
ShouldRetry(e, idx) ==
    /\ idx < RetryBudget
    /\ e # NoErr
    /\ Contains(e, "Service")

\* a plausible bug: the retried call assigns a shadowed err, so the error
\* returned after the loop is the one of the attempt before
AfterCallLamda_ShadowedErr(f, e, tr) ==
    LET f1 == IF i = -1
              THEN logMessage(f, Msg("called lambda, processing errors"))
              ELSE f
        idx == i + 1
    IN IF ShouldRetry(e, idx)
       THEN /\ ft' = logMessage(f1,
                       Msg("service exception, sleeping and trying lambda again"))
            /\ pc' = "call"
            /\ i' = idx
            /\ err' = e
            /\ trace' = Append(tr, "sleep:retry")
            /\ UNCHANGED ret
       ELSE IF e # NoErr
            THEN Return(f1, IF i = -1 THEN e ELSE err, tr)
            ELSE Teardown([f1 EXCEPT !.Passed = TRUE], tr)

\* a plausible bug: a retry leaves no log entry
AfterCallLamda_SilentRetry(f, e, tr) ==
    LET f1 == IF i = -1
              THEN logMessage(f, Msg("called lambda, processing errors"))
              ELSE f
        idx == i + 1
    IN IF ShouldRetry(e, idx)
       THEN /\ ft' = f1
            /\ pc' = "call"
            /\ i' = idx
            /\ err' = e
            /\ trace' = Append(tr, "sleep:retry")
            /\ UNCHANGED ret
       ELSE IF e # NoErr
            THEN Return(f1, e, tr)
            ELSE Teardown([f1 EXCEPT !.Passed = TRUE], tr)

\* callLamda returned e, the call made at loop index i (-1: the call of
\* line 438): the rest of the loop, then lines 455-458
AfterCallLamda(f, e, tr) ==
    LET f1 == IF i = -1
              THEN logMessage(f, Msg("called lambda, processing errors"))
              ELSE f
        idx == i + 1
    IN IF ShouldRetry(e, idx)
       THEN /\ ft' = logMessage(f1,
                       Msg("service exception, sleeping and trying lambda again"))
            /\ pc' = "call"
            /\ i' = idx
            /\ err' = e
            /\ trace' = Append(tr, "sleep:retry")
            /\ UNCHANGED ret
       ELSE IF e # NoErr
            THEN Return(f1, e, tr)
            ELSE Teardown([f1 EXCEPT !.Passed = TRUE], tr)

\* lines 385-387 of CreateStack, the wait having returned (stk, nil)
CreateStackDone(f, stk, tr) ==
    IF stk = NilStack
    THEN /\ pc' = "panic"
         /\ ft' = f
         /\ trace' = tr
         /\ UNCHANGED <<ret, err, i>>
    ELSE AfterCreateStack([f EXCEPT !.StackName = stk.StackName,
                                    !.stackCreated = TRUE], NoErr, tr)

(***************************************************************************)
(* getStackInfo (lines 390-416) and callLamda after Invoke (lines 301-317) *)
(***************************************************************************)
\* getStackInfo on a DescribeStacks answer: the tester and the error
getStackInfo(f, ans) ==
    IF ans.kind = "err" THEN [ft |-> f, err |-> ans.err]
    ELSE IF ans.kind = "nostacks"
         THEN [ft |-> f,
               err |-> <<"could not find stack with provided StackName">>]
    ELSE IF ans.kind = "nooutputs"
         THEN [ft |-> f, err |-> <<"no outputs detected on provided StackName">>]
    ELSE IF ans.outputs[1].OutputKey = "FunctionName"
         THEN [ft |-> [f EXCEPT !.functionName = ans.outputs[1].OutputValue],
               err |-> NoErr]
    ELSE [ft |-> f,
          err |-> <<"error getting FunctionName output from existing stack">>]

\* a plausible bug: rejected results are dropped
callLamdaInvoked_DropRejected(f, ans) ==
    IF ans.kind = "err" THEN [ft |-> f, err |-> ans.err, verdict |-> "none"]
    ELSE IF ans.kind = "undecodable"
         THEN [ft |-> f, err |-> UnmarshalErr, verdict |-> "none"]
    ELSE LET f1 == [f EXCEPT !.TestResults = ans.results]
             f2 == logMessage(f1, Msg("checking results for timing"))
             cr == checkResults(f2, f1.TestResults)
         IN [ft |-> [logMessage(cr.ft, Msg("tests passed")) EXCEPT
                       !.TestResults = IF cr.err # NoErr THEN <<>> ELSE @],
             err |-> IF cr.err # NoErr
                     THEN <<"tests failed or took too long">>
                     ELSE NoErr,
             verdict |-> IF cr.err # NoErr THEN "reject" ELSE "accept"]

\* callLamda from the answer of Invoke on: the tester, the error and whether
\* checkResults accepted ("none" if it was not reached)
callLamdaInvoked(f, ans) ==
    IF ans.kind = "err" THEN [ft |-> f, err |-> ans.err, verdict |-> "none"]
    ELSE IF ans.kind = "undecodable"
         THEN [ft |-> f, err |-> UnmarshalErr, verdict |-> "none"]
    ELSE LET f1 == [f EXCEPT !.TestResults = ans.results]
             f2 == logMessage(f1, Msg("checking results for timing"))
             cr == checkResults(f2, f1.TestResults)
         IN [ft |-> logMessage(cr.ft, Msg("tests passed")),
             err |-> IF cr.err # NoErr
                     THEN <<"tests failed or took too long">>
                     ELSE NoErr,
             verdict |-> IF cr.err # NoErr THEN "reject" ELSE "accept"]

\* a plausible bug: the created-flag is reset whatever DeleteStack returned
StackCreatedAfterDelete_Reset(created, e) == FALSE

\* a plausible bug: the created-flag is not reset after a delete
StackCreatedAfterDelete_Keep(created, e) == created

\* lines 463-466: the created-flag after DeleteStack returned e
StackCreatedAfterDelete(created, e) == IF e = NoErr THEN FALSE ELSE created

(***************************************************************************)
(* The operations, one action per segment of code that ends in a remote    *)
(* call or a return.                                                       *)
(***************************************************************************)
\* Test() is called: lines 421-437
Test ==
    /\ pc = "ready"
    /\ nOps < OpsAllowed
    /\ nOps' = nOps + 1
    /\ op' = "Test"
    /\ count' = 0 /\ stack' = NilStack /\ polled' = <<>> /\ answers' = <<>>
    /\ LET f1 == logMessage(ft, Msg("starting test"))
           tr == Append(trace, "Test")
       IN IF ~ft.stackCreated
          THEN /\ ft' = logMessage(f1,
                          Msg("stack doesn't exist yet, creating stack"))
               /\ pc' = "create"
               /\ trace' = tr
               /\ UNCHANGED <<ret, err, i>>
          ELSE StartInvocation(f1, tr)
    /\ UNCHANGED <<input, env>>
    /\ UNCHANGED <<payload, got>>

\* CreateStack() is called by the user of the package
CreateStack ==
    /\ pc = "ready"
    /\ nOps < OpsAllowed
    /\ nOps' = nOps + 1
    /\ op' = "CreateStack"
    /\ count' = 0 /\ stack' = NilStack /\ polled' = <<>> /\ answers' = <<>>
    /\ pc' = "create"
    /\ trace' = Append(trace, "CreateStack")
    /\ UNCHANGED <<input, env, ft, ret, err, i>>
    /\ UNCHANGED <<payload, got>>

\* a plausible bug: the loop of watchStack tests count >= maxtries + 2
Exceeded_Late(c) == c > maxtries + 1

\* a plausible bug: the test comes out true on the first pass, the loop
\* breaks before any DescribeStacks
Exceeded_Immediately(c) == c >= 1

\* watchStack line 498: if count > maxtries
Exceeded(c) == c > maxtries

\* CreateStack lines 336-381: load the template, submit the create request
CreateSubmit ==
    /\ pc = "create"
    /\ LET f1 == logMessage(ft, Msg("loading template file")) IN
       \E tmplErr \in (IF ft.stackTemplateFilename = ""
                       THEN {NoErr} ELSE {NoErr, ReadFileErr}) :
         IF tmplErr # NoErr
         THEN /\ AfterCreateStack(f1, tmplErr, trace)
              /\ answers' = Append(answers, Answer("template", tmplErr))
              /\ UNCHANGED <<count, stack, polled>>
         ELSE \E rando \in Randos, e \in {NoErr} \cup EnvRemoteErrs :
                LET stackName == f1.stackPrefix \o rando
                    f2 == logMessage(f1,
                            MsgS("creating stack with name '%s'", stackName))
                    tr == Append(trace, "create")
                IN /\ answers' = answers \o << Answer("template", NoErr),
                                               Answer("create", e) >>
                   /\ IF e # NoErr
                      THEN /\ AfterCreateStack(f2, e, tr)
                           /\ UNCHANGED <<count, stack, polled>>
                      ELSE /\ ft' = [f2 EXCEPT
                                      !.StackName = StackIdOf(stackName)]
                           /\ trace' = Append(tr, "sleep:create")
                           /\ pc' = "watch"
                           /\ count' = 0
                           /\ stack' = NilStack
                           /\ polled' = <<>>
                           /\ UNCHANGED <<ret, err, i>>
    /\ UNCHANGED <<input, env, op, nOps>>
    /\ UNCHANGED <<payload, got>>

\* watchStack lines 496-532: one pass of the loop that polls
WatchPoll ==
    /\ pc = "watch"
    /\ ~Exceeded(count + 1)
    /\ count' = count + 1
    /\ LET f1 == logMessage(ft, Msg("waiting on stack"))
           tr == Append(trace, "poll")
       IN \/ \E e \in EnvRemoteErrs :
               /\ polled' = Append(polled, "ERR")
               /\ answers' = Append(answers, Answer("poll", e))
               /\ stack' = stack
               /\ AfterCreateStack(f1, e, tr)
          \/ /\ polled' = Append(polled, "EMPTY")
             /\ answers' = Append(answers,
                  Answer("poll", <<"not enough stacks in describe">>))
             /\ stack' = stack
             /\ AfterCreateStack(f1, <<"not enough stacks in describe">>, tr)
          \/ \E status \in EnvStackStatuses :
               LET stk == [StackName |-> StackNameOf(ft.StackName),
                           StackStatus |-> status]
               IN /\ polled' = Append(polled, status)
                  /\ answers' = Append(answers, Answer("poll", NoErr))
                  /\ stack' = stk
                  /\ IF IsTerminal(status)
                     THEN CreateStackDone(f1, stk, tr)
                     ELSE /\ ft' = f1
                          /\ pc' = "watch"
                          /\ trace' = Append(tr, "sleep:poll")
                          /\ UNCHANGED <<ret, err, i>>
    /\ UNCHANGED <<input, env, op, nOps>>
    /\ UNCHANGED <<payload, got>>

\* watchStack lines 497-500 and 534: count exceeds maxtries, the loop breaks
\* and the function returns its named results stack and err
WatchTimeout ==
    /\ pc = "watch"
    /\ Exceeded(count + 1)
    /\ count' = count + 1
    /\ CreateStackDone(ft, stack, Append(trace, "timeout"))
    /\ UNCHANGED <<input, env, op, nOps, stack, polled, answers>>
    /\ UNCHANGED <<payload, got>>

\* callLamda lines 275-300: describe the stack, prepare the event, sleep
CallDescribe ==
    /\ pc = "call"
    /\ \E ans \in EnvDescribeAnswers :
         LET gi == getStackInfo(logMessage(ft, Msg("inside callLambda")), ans)
             tr == Append(trace, "describe")
         IN /\ answers' = Answered(answers,
                  AnswerWith("describe", gi.err,
                             IF ans.kind = "outputs" THEN ans.outputs
                             ELSE <<>>))
            /\ IF gi.err # NoErr
               THEN /\ AfterCallLamda(gi.ft, gi.err, tr)
                    /\ UNCHANGED payload
               ELSE /\ payload' = MarshalEvent(gi.ft.testEvent)
                    /\ ft' = logMessage(
                               logMessage(
                                 logMessage(gi.ft, Msg("preparing test event")),
                                 MsgN("sleeping %ds before invoking lambda",
                                      ft.postEventSleepTimeSeconds)),
                               Msg("invoking lambda"))
                    /\ pc' = "invoke"
                    /\ trace' = Append(tr, "sleep:post")
                    /\ UNCHANGED <<ret, err, i>>
    /\ UNCHANGED <<input, env, op, nOps, count, stack, polled>>
    /\ UNCHANGED got

\* callLamda lines 301-317: invoke, decode, check the results
CallInvoke ==
    /\ pc = "invoke"
    /\ \E ans \in EnvInvokeAnswers :
         LET r == callLamdaInvoked(ft, ans)
             tr == Append(trace, "invoke")
         IN /\ answers' = Answered(answers,
                  AnswerWith("invoke", r.err,
                             IF ans.kind = "results" THEN ans.results
                             ELSE <<>>))
            /\ AfterCallLamda(r.ft, r.err,
                              IF r.verdict = "none" THEN tr
                              ELSE Append(tr, r.verdict))
    /\ UNCHANGED <<input, env, op, nOps, count, stack, polled>>
    /\ UNCHANGED <<payload, got>>

\* Test lines 463-478: the delete request and the return
TestDelete ==
    /\ pc = "delete"
    /\ \E e \in {NoErr} \cup EnvRemoteErrs :
         LET f1 == [ft EXCEPT !.stackCreated =
                                 StackCreatedAfterDelete(@, e)]
             tr == Append(trace, "delete")
         IN /\ answers' = Answered(answers,
                                  AnswerWith("delete", e, ft.StackName))
            /\ IF e # NoErr
               THEN Return(logMessage(f1, MsgS("errors: %s", e)), e, tr)
               ELSE Return(logMessage(f1, Msg("tests complete")), NoErr, tr)
    /\ UNCHANGED <<input, env, op, nOps, count, stack, polled>>
    /\ UNCHANGED <<payload, got>>

\* DeleteStack() is called by the user of the package (lines 323-331)
DeleteStack ==
    /\ pc = "ready"
    /\ nOps < OpsAllowed
    /\ nOps' = nOps + 1
    /\ op' = "DeleteStack"
    /\ count' = 0 /\ stack' = NilStack /\ polled' = <<>>
    /\ \E e \in {NoErr} \cup EnvRemoteErrs :
         /\ ret' = [op |-> "DeleteStack", err |-> e]
         /\ answers' = <<AnswerWith("delete", e, ft.StackName)>>
         /\ trace' = trace \o <<"DeleteStack", "delete", "return">>
    /\ UNCHANGED <<input, env, ft, pc, err, i>>
    /\ UNCHANGED <<payload, got>>

\* GetLog() is called by the user of the package (lines 483-485)
GetLog ==
    /\ pc = "ready"
    /\ nOps < OpsAllowed
    /\ nOps' = nOps + 1
    /\ op' = "GetLog"
    /\ count' = 0 /\ stack' = NilStack /\ polled' = <<>> /\ answers' = <<>>
    /\ got' = Join(ft.log)
    /\ ret' = [op |-> "GetLog", err |-> NoErr]
    /\ trace' = trace \o <<"GetLog", "return">>
    /\ UNCHANGED <<input, env, ft, pc, err, i, payload>>

Next ==
    \/ New
    \/ Test
    \/ CreateStack
    \/ CreateSubmit
    \/ WatchPoll
    \/ WatchTimeout
    \/ CallDescribe
    \/ CallInvoke
    \/ TestDelete
    \/ DeleteStack
    \/ GetLog

Spec == Init /\ [][Next]_vars

SpecSeq == InitSeq /\ [][Next]_vars

\* the steps inside an operation: each ends in a remote call or a sleep
\* that has returned
Steps ==
    \/ CreateSubmit
    \/ WatchPoll
    \/ WatchTimeout
    \/ CallDescribe
    \/ CallInvoke
    \/ TestDelete

\* one operation under the full environment, every remote call and every
\* sleep returning
SpecLive == Init /\ [][Next]_vars /\ WF_vars(Steps)

(***************************************************************************)
(* Properties.                                                             *)
(***************************************************************************)
\* the events of the operation that is running or returned last
Cur == LastCall(trace)

\* Test() has returned and nothing was called since
TestReturned == pc = "ready" /\ ret.op = "Test"

\* C1: for a tester with retain=false, a Test() in which the invocation
\* succeeded and the validator rejected the results has issued a delete
\* request by the time it returns.
C1_RejectedResultsStillDelete ==
    (TestReturned /\ ~ft.RetainStack /\ Count(Cur, "reject") > 0)
      => Count(Cur, "delete") >= 1

\* C2: a Test() whose results the validator accepted returns, with
\* retain=false, after exactly one delete request and with the created-flag
\* false if the request was accepted; with retain=true after no delete
\* request and with the created-flag true.
C2_PassingTeardown ==
    (TestReturned /\ Count(Cur, "accept") > 0)
      => IF ft.RetainStack
         THEN Count(Cur, "delete") = 0 /\ ft.stackCreated
         ELSE /\ Count(Cur, "delete") = 1
              /\ ret.err = NoErr => ~ft.stackCreated

C2_Witness ==
    /\ TestReturned
    /\ Count(Cur, "accept") > 0
    /\ ~ft.RetainStack
    /\ Count(Cur, "delete") = 1
    /\ ret.err = NoErr
    /\ ~ft.stackCreated

\* C3: a tester constructed with an existing stack name submits no create
\* request in any sequence of Test() calls.
C3_ResumeNeverCreates ==
    (/\ input.StackName # <<>>
     /\ Count(trace, "CreateStack") = 0
     /\ Count(trace, "DeleteStack") = 0)
      => Count(trace, "create") = 0

\* C4: New on an input with an empty StackName and an empty SubnetId or VpcId
\* returns a non-nil error and no tester, and makes no remote call.
C4_MissingFieldsError ==
    (/\ pc # "start"
     /\ nOps = 0
     /\ input.StackName = <<>>
     /\ input.SubnetId = "" \/ input.VpcId = "")
      => /\ pc = "newerr"
         /\ ret.op = "New" /\ ret.err # NoErr
         /\ ft = ZeroFlipTester
         /\ trace = <<>>

\* C5: New on an input with a non-empty StackName succeeds whatever SubnetId
\* and VpcId are, and returns a tester that holds that stack name and whose
\* created-flag is true.
C5_ResumeConstructs ==
    (pc # "start" /\ nOps = 0 /\ input.StackName # <<>>)
      => /\ pc = "ready"
         /\ ret.op = "New" /\ ret.err = NoErr
         /\ ft.StackName = input.StackName
         /\ ft.stackCreated

\* C6: New on an otherwise valid input without a session does not crash and
\* returns a tester that holds a session.
C6_NilSessionDefault ==
    (/\ pc # "start"
     /\ nOps = 0
     /\ input.Session = Nil
     /\ NewRequiredFieldErr(input) = NoErr)
      => pc = "ready" /\ ft.sess # Nil

\* C7: the probe list of a constructed tester is the three defaults gopkg.in,
\* google, time in that order if the caller supplied no test URLs and the
\* caller's list otherwise, and the request directive is "RunAll".
C7_ProbeList ==
    (pc = "ready" /\ nOps = 0)
      => /\ ft.testEvent.RequestType = "RunAll"
         /\ IF input.TestUrls = <<>>
            THEN ft.testEvent.TestUrls =
                   << [Name |-> "gopkg.in", Url |-> "https://gopkg.in"],
                      [Name |-> "google", Url |-> "https://www.google.com"],
                      [Name |-> "time", Url |-> "https://www.nist.gov"] >>
            ELSE ft.testEvent.TestUrls = input.TestUrls

C7_Witness ==
    /\ pc = "ready"
    /\ nOps = 0
    /\ input.TestUrls = <<>>
    /\ Len(ft.testEvent.TestUrls) = 3
    /\ ft.testEvent.TestUrls[3].Name = "time"

\* C8: when the readiness wait ends because maxtries polls saw no terminal
\* status, the created-flag stays false, the probe is neither described nor
\* invoked and Test() returns an error.
C8_TimeoutIsError ==
    Count(Cur, "timeout") > 0
      => /\ ~ft.stackCreated
         /\ Count(Cur, "describe") = 0
         /\ Count(Cur, "invoke") = 0
         /\ pc = "ready" => ret.err # NoErr

\* C9: when a readiness poll saw a failure-terminal status, the created-flag
\* stays false, the probe is not called and the operation returns an error.
C9_FailureTerminalIsError ==
    (IsTerminal(stack.StackStatus) /\ stack.StackStatus # "CREATE_COMPLETE")
      => /\ ~ft.stackCreated
         /\ Count(Cur, "describe") = 0
         /\ pc = "ready" => ret.err # NoErr

\* index in tr of the last readiness poll, 0 if none
LastPoll(tr) ==
    IF Count(tr, "poll") = 0 THEN 0
    ELSE CHOOSE k \in 1..Len(tr) :
           tr[k] = "poll" /\ \A j \in (k+1)..Len(tr) : tr[j] # "poll"

\* C10: the readiness wait issues at most maxtries polls; a poll that returns
\* CREATE_COMPLETE is the last poll of the wait, and the wait then returns
\* success: CreateStack returns nil, Test() goes on to the grace sleep.
C10_PollsUntilComplete ==
    /\ Len(polled) <= maxtries
    /\ Count(Cur, "poll") = Len(polled)
    /\ \A k \in 1..Len(polled) :
         polled[k] = "CREATE_COMPLETE"
           => /\ k = Len(polled)
              /\ pc \notin {"watch", "panic"}
              /\ Cur[LastPoll(Cur) + 1] =
                   (IF op = "Test" THEN "sleep:initial" ELSE "return")
              /\ op = "CreateStack" => (ret.err = NoErr /\ ft.stackCreated)

C10_Witness ==
    /\ Len(polled) = maxtries
    /\ polled[Len(polled)] = "CREATE_COMPLETE"
    /\ \A k \in 1..(Len(polled) - 1) : polled[k] = "CREATE_IN_PROGRESS"
    /\ op = "Test"
    /\ pc = "call"

(***************************************************************************)
(* Properties of the failure paths of Test().                              *)
(***************************************************************************)
\* the answer of the call made last in the running or last operation
LastAnswer == answers[Len(answers)]

Attempts ==
    SelectSeq(answers,
              LAMBDA a : \/ a.call = "describe" /\ a.err # NoErr
                         \/ a.call = "invoke")

\* the error of an attempt carries the transient signature
Transient(a) == a.err # NoErr /\ Contains(a.err, "Service")

\* C12: within one Test() call callLamda is called again at most 5 times
\* after the first attempt, 6 attempts in all, whatever the attempts return.
C12_AtMostFiveRetries ==
    /\ Count(Cur, "sleep:retry") <= 5
    /\ Count(Cur, "describe") <= 6
    /\ Count(Cur, "invoke") <= 6
    /\ Len(Attempts) <= 6

C12_Witness ==
    /\ TestReturned
    /\ Count(Cur, "sleep:retry") = 5
    /\ Count(Cur, "describe") = 6
    /\ Len(Attempts) = 6
    /\ Transient(Attempts[6])

\* C13: an attempt whose error does not carry the transient signature, or
\* that succeeded, is the last attempt of its Test() call: no retry sleep and
\* no further describe or invoke follows it.
C13_RetryOnlyAfterTransient ==
    \A k \in 1..Len(Attempts) :
      ~Transient(Attempts[k])
        => /\ k = Len(Attempts)
           /\ pc \notin {"call", "invoke"}
           /\ Count(Cur, "describe") = k
           /\ Count(Cur, "sleep:retry") = k - 1

C13_Witness ==
    /\ TestReturned
    /\ Len(Attempts) = 3
    /\ Transient(Attempts[1])
    /\ Transient(Attempts[2])
    /\ Attempts[3].err # NoErr
    /\ ~Transient(Attempts[3])
    /\ ret.err = Attempts[3].err

\* every attempt made so far failed with the transient signature
AllTransient == \A k \in 1..Len(Attempts) : Transient(Attempts[k])

\* C14: a Test() all of whose attempts failed with the transient signature
\* returns once the budget is used up (after the 6th attempt) and returns
\* the error of that last attempt.
C14_ExhaustedReturnsLastError ==
    (TestReturned /\ Attempts # <<>> /\ AllTransient)
      => /\ Len(Attempts) = 6
         /\ Count(Cur, "sleep:retry") = 5
         /\ ret.err = Attempts[6].err
         /\ Count(Cur, "delete") = 0

C14_Witness ==
    /\ TestReturned
    /\ Len(Attempts) = 6
    /\ AllTransient
    /\ Attempts[5].err # Attempts[6].err
    /\ Attempts[1].err # Attempts[6].err
    /\ ret.err = Attempts[6].err

\* the retry entries in the log of the tester
RetryEntries ==
    Cardinality({ k \in 1..Len(ft.log) :
        ft.log[k].msg.fmt
          = "service exception, sleeping and trying lambda again" })

\* C15: a Test() whose attempts failed k times with the transient signature
\* (k = 0..5) and then succeeded with accepted results passes: Passed is set,
\* the log has exactly k retry entries, and the call returns nil, or the
\* error of its own delete request when the teardown that follows fails.
C15_SuccessAfterKRetries ==
    (/\ op = "Test" /\ Attempts # <<>>
     /\ Attempts[Len(Attempts)].err = NoErr)
      => /\ \A k \in 1..(Len(Attempts) - 1) : Transient(Attempts[k])
         /\ Len(Attempts) - 1 <= 5
         /\ RetryEntries = Len(Attempts) - 1
         /\ ft.Passed
         /\ Count(Cur, "accept") = 1
         /\ pc \in {"delete", "ready"}
         /\ TestReturned
              => \/ ret.err = NoErr
                 \/ /\ LastAnswer.call = "delete"
                    /\ ret.err = LastAnswer.err
                    /\ ret.err # NoErr

C15_Witness ==
    /\ TestReturned
    /\ Len(Attempts) = 6
    /\ Attempts[6].err = NoErr
    /\ RetryEntries = 5
    /\ ft.Passed
    /\ ret.err = NoErr
    /\ LastAnswer.call = "delete"

(***************************************************************************)
(* Properties of the validation of the results.                            *)
(***************************************************************************)
\* the call decoded a result list and checkResults gave its verdict on it
Validated == Count(Cur, "accept") + Count(Cur, "reject") > 0

\* C16: an empty decoded result list is rejected with "no test results to
\* check": a Test() whose probe returned no results makes no accept, does
\* not set Passed and, once returned, returns an error.
C16_EmptyResultsRejected ==
    (op = "Test" /\ Validated /\ ft.TestResults = <<>>)
      => /\ checkResults(ft, <<>>).err = <<"no test results to check">>
         /\ Count(Cur, "accept") = 0
         /\ ~ft.Passed
         /\ TestReturned => ret.err # NoErr

\* the indexes of the results that are unsuccessful or slower than 6 seconds
Failing(rs) ==
    { k \in 1..Len(rs) : ~rs[k].Success \/ rs[k].ElapsedTimeS > 6 }

C18_DescribeResolvesFunctionName ==
    [][ pc = "call" =>
          LET a == answers'[Len(answers')]
              outs == a.data
              fn == { k \in 1..Len(outs) : outs[k].OutputKey = "FunctionName" }
          IN /\ a.call = "describe"
             /\ IF fn # {}
                THEN /\ a.err = NoErr
                     /\ \E k \in fn : ft'.functionName = outs[k].OutputValue
                ELSE /\ a.err # NoErr
                     /\ ft'.functionName = ft.functionName ]_vars

\* the log holds the "errors: ..." entry of line 473 for the error e
ErrorLogged(e) ==
    \E k \in 1..Len(ft.log) : ft.log[k].msg = MsgS("errors: %s", e)

\* C19: a Test() of a tester that is not to retain its stack, returned
\* after rejected results, has asked for the delete and returns the
\* validation error; a delete that failed is in the log and is not what the
\* call returns.
C19_ValidationErrorOutlivesDeleteError ==
    (TestReturned /\ Count(Cur, "reject") > 0 /\ ~ft.RetainStack)
      => /\ ret.err = <<"tests failed or took too long">>
         /\ Count(Cur, "delete") = 1
         /\ LastAnswer.call = "delete"
         /\ LastAnswer.err # NoErr => ErrorLogged(LastAnswer.err)

\* C20: a Test() returned after decoded results that checkResults rejected
\* returns an error, and TestResults is the whole list that invocation sent.
C20_RejectedResultsKept ==
    (TestReturned /\ Count(Cur, "reject") > 0)
      => /\ ret.err # NoErr
         /\ LastAnswer.call = "invoke"
         /\ LastAnswer.data # <<>>
         /\ ft.TestResults = LastAnswer.data

C20_Witness ==
    /\ TestReturned
    /\ Count(Cur, "reject") = 1
    /\ Count(Cur, "sleep:retry") = 1
    /\ Len(ft.TestResults) = 2
    /\ ft.TestResults[1].Success
    /\ ft.TestResults[2].ElapsedTimeS > 6
    /\ ret.err = <<"tests failed or took too long">>

(***************************************************************************)
(* Properties of the log and of GetLog.                                    *)
(***************************************************************************)
\* C21: the log is append-only: no step of New, Test, CreateStack,
\* DeleteStack or GetLog shortens it, and every entry keeps its position
\* and its content.
C21_LogAppendOnly ==
    [][ /\ Len(ft'.log) >= Len(ft.log)
        /\ \A k \in 1..Len(ft.log) : ft'.log[k] = ft.log[k] ]_vars

\* a GetLog after New, then a Test that appended to the log
C21_Witness ==
    /\ pc = "ready"
    /\ op = "Test"
    /\ nOps = 2
    /\ got # <<>>
    /\ got[1].line = ft.log[1]
    /\ Len(ft.log) > (Len(got) + 1) \div 2

\* a step that is a call of GetLog
GetLogStep == op' = "GetLog" /\ nOps' = nOps + 1

\* C22: GetLog returns every log entry, in append order, with one newline
\* between two entries and none at the ends; the call leaves the tester as
\* it was, and a GetLog right after a GetLog returns the same string.
C22_GetLogJoinsInOrder ==
    [][ GetLogStep =>
          LET n == Len(ft.log) IN
          /\ ft' = ft
          /\ pc' = pc
          /\ Len(got') = IF n = 0 THEN 0 ELSE 2 * n - 1
          /\ \A k \in 1..n : /\ ~got'[2 * k - 1].newline
                             /\ got'[2 * k - 1].line = ft.log[k]
          /\ \A k \in 1..(n - 1) : got'[2 * k].newline
          /\ op = "GetLog" => got' = got ]_vars

\* a GetLog after a Test: several lines
C22_Witness ==
    /\ op = "GetLog"
    /\ Count(trace, "Test") = 1
    /\ Len(ft.log) > 3
    /\ Len(got) = 2 * Len(ft.log) - 1

(***************************************************************************)
(* Properties of sequences of operations and of the whole of Test().       *)
(***************************************************************************)
\* the events of the operations before the one begun last
Before == SubSeq(trace, 1, LastStart(trace) - 1)

\* C23: a Test() on a tester with RetainStack set that follows a Test()
\* whose results were accepted (it returned nil and kept the stack) submits
\* no create request and makes no readiness poll: its first step is the
\* grace sleep, and the describe of the first invocation attempt follows.
C23_RetainedStackIsReused ==
    (/\ op = "Test"
     /\ ft.RetainStack
     /\ Count(Before, "accept") > 0)
      => /\ Count(Cur, "create") = 0
         /\ Count(Cur, "poll") = 0
         /\ Count(Cur, "timeout") = 0
         /\ Len(Cur) >= 2 /\ Cur[2] = "sleep:initial"
         /\ Len(Cur) >= 3 => Cur[3] = "describe"

\* a fresh tester: the first Test() created the stack, the second invoked
C23_Witness ==
    /\ TestReturned
    /\ ft.RetainStack
    /\ Count(Before, "create") = 1
    /\ Count(Before, "accept") = 1
    /\ Count(Cur, "invoke") = 1
    /\ Count(Cur, "create") = 0
    /\ ret.err = NoErr

\* a Test() is under way
TestRunning ==
    op = "Test" /\ pc \in {"create", "watch", "call", "invoke", "delete"}

\* the remote calls of the Test() under way or returned last are within
\* their bounds
TestCallsBounded ==
    op = "Test"
      => /\ Count(Cur, "create") <= 1
         /\ Count(Cur, "poll") <= maxtries
         /\ Count(Cur, "describe") <= RetryBudget + 1
         /\ Count(Cur, "invoke") <= RetryBudget + 1
         /\ Count(Cur, "delete") <= 1

\* C24: when every remote call and every sleep returns, every Test() call
\* returns, and it makes at most one create request, at most maxtries
\* readiness polls, at most 6 invocation attempts (the first and 5 retries)
\* and at most one delete request.
C24_TestTerminatesBounded ==
    /\ []TestCallsBounded
    /\ TestRunning ~> TestReturned

\* a Test() that used every bound: all polls, all attempts, the delete
C24_Witness ==
    /\ TestReturned
    /\ Count(Cur, "create") = 1
    /\ Count(Cur, "poll") = maxtries
    /\ Count(Cur, "describe") = RetryBudget + 1
    /\ Count(Cur, "invoke") = RetryBudget + 1
    /\ Count(Cur, "delete") = 1

(***************************************************************************)
(* Properties of the attempts of callLamda.                                *)
(***************************************************************************)
\* C25: every attempt that was followed by a retry failed in the Invoke
\* call itself: an attempt that failed in getStackInfo, in decoding or in
\* checkResults is never retried.
C25_OnlyInvokeErrorsRetried ==
    op = "Test"
      => \A k \in 1..Len(Attempts) :
           (k < Len(Attempts) \/ pc \in {"call", "invoke"})
             => /\ Attempts[k].call = "invoke"
                /\ Attempts[k].err \in RemoteErrs

\* C26: in every Test() the grace sleep comes once, before the first
\* attempt; every attempt is describe, post-event sleep, invoke in this
\* order; an attempt whose describe failed has no sleep and no invoke, and
\* its error is the error of getStackInfo.
C26_AttemptOrder ==
    op = "Test"
      => LET cur == Cur
             sent == { k \in 1..Len(answers) : answers[k].call = "invoke" }
             found == { k \in 1..Len(answers) :
                          answers[k].call = "describe" /\ answers[k].err = NoErr }
         IN /\ Count(cur, "sleep:initial") <= 1
            /\ \A k \in 1..Len(cur) :
                 /\ cur[k] = "describe"
                      => /\ k > 1
                         /\ cur[k - 1] \in {"sleep:initial", "sleep:retry"}
                         /\ \E j \in 1..(k - 1) : cur[j] = "sleep:initial"
                 /\ cur[k] = "sleep:post" => k > 1 /\ cur[k - 1] = "describe"
                 /\ cur[k] = "invoke" => k > 2 /\ cur[k - 1] = "sleep:post"
                 /\ cur[k] = "sleep:retry"
                      => k > 1 /\ cur[k - 1] \in {"describe", "invoke"}
            /\ Count(cur, "invoke") = Cardinality(sent)
            /\ Count(cur, "sleep:post") = Cardinality(found)
            /\ (answers # <<>> /\ LastAnswer.call = "describe"
                  /\ LastAnswer.err # NoErr /\ pc = "ready")
                 => /\ ret.err = LastAnswer.err
                    /\ cur[Len(cur) - 1] = "describe"

\* two attempts: the first invoked the probe, the describe of the second
\* failed
C26_Witness ==
    /\ TestReturned
    /\ Count(Cur, "sleep:initial") = 1
    /\ Count(Cur, "describe") = 2
    /\ Count(Cur, "invoke") = 1
    /\ LastAnswer.call = "describe"
    /\ ret.err = <<"no outputs detected on provided StackName">>

(***************************************************************************)
(* Properties of CreateStack, of the wait and of the delete.               *)
(***************************************************************************)
\* C27: the wait has two phases: that the stack is not found is the failure
\* of the existence wait, which ends the wait before the completion wait
\* has begun, that is before any poll has read a status, and with the
\* created-flag as it was (false on a tester that had no stack).
C27_TwoPhaseWait ==
    (polled # <<>> /\ polled[Len(polled)] = "EMPTY")
      => /\ Len(polled) = 1
         /\ ft.stackCreated = NewFlipTester(input).stackCreated
         /\ ret.err = <<"not enough stacks in describe">>

\* C28: a step of CreateStack in which loading the template fails returns
\* that error, submits no create request and polls nothing, and leaves
\* StackName and the created-flag as they were.
C28_TemplateErrorFailsFast ==
    [][ (/\ pc = "create"
         /\ answers' # <<>>
         /\ answers'[Len(answers')].call = "template"
         /\ answers'[Len(answers')].err # NoErr)
          => /\ pc' = "ready"
             /\ ret' = [op |-> op, err |-> answers'[Len(answers')].err]
             /\ trace' = Append(trace, "return")
             /\ ft'.StackName = ft.StackName
             /\ ft'.stackCreated = ft.stackCreated ]_vars

C28_Witness ==
    /\ pc = "ready"
    /\ op = "CreateStack"
    /\ LastAnswer.call = "template"
    /\ ret = [op |-> "CreateStack", err |-> ReadFileErr]
    /\ Count(Cur, "create") = 0
    /\ Count(Cur, "poll") = 0
    /\ ~ft.stackCreated

\* C29: a Test() that asked for the delete returns right after the answer,
\* without a poll or a describe of the deleted stack: the created-flag is
\* false and nil is returned if the request was accepted, the flag is still
\* true and the error of the request is returned if it was rejected.
C29_DeleteFireAndForget ==
    (op = "Test" /\ Count(Cur, "delete") > 0)
      => /\ TestReturned
         /\ Count(Cur, "delete") = 1
         /\ SubSeq(Cur, Len(Cur) - 1, Len(Cur)) = <<"delete", "return">>
         /\ LastAnswer.call = "delete"
         /\ ret.err = LastAnswer.err
         /\ ft.stackCreated = (LastAnswer.err # NoErr)

C29_Witness ==
    /\ TestReturned
    /\ LastAnswer.call = "delete"
    /\ LastAnswer.err \in RemoteErrs
    /\ ret.err = LastAnswer.err
    /\ ft.stackCreated

\* the probes fixed at construction: the list of the input, or the default
\* list if that was empty
ProbesOfInput ==
    IF input.TestUrls = <<>> THEN DefaultTestUrls ELSE input.TestUrls

\* C30: from New on, the request directive and the probe list of the tester
\* are the ones fixed at construction, through every step of Test,
\* CreateStack and DeleteStack, and the payload of every Invoke, retries
\* included, carries that directive and those probes in that order.
C30_ProbeListFixed ==
    pc \notin {"start", "newerr", "panic"}
      => /\ ft.testEvent = [RequestType |-> "RunAll", TestUrls |-> ProbesOfInput]
         /\ pc = "invoke"
              => /\ Len(payload) = 3 + 4 * Len(ProbesOfInput)
                 /\ payload[2] = "RunAll"
                 /\ \A k \in 1..Len(ProbesOfInput) :
                      /\ payload[4 * k + 1] = ProbesOfInput[k].Name
                      /\ payload[4 * k + 3] = ProbesOfInput[k].Url

\* the second attempt of a Test() on a tester built with its own probe list
C30_Witness ==
    /\ pc = "invoke"
    /\ input.TestUrls # <<>>
    /\ Count(Cur, "sleep:retry") = 1
    /\ Count(Cur, "invoke") = 1
    /\ payload[5] = input.TestUrls[1].Name

(***************************************************************************)
(* Properties of the flags and of the log over the life of a tester.       *)
(***************************************************************************)
\* the log entries of the tester with the message text f
LogCount(f) == Cardinality({ k \in 1..Len(ft.log) : ft.log[k].msg.fmt = f })

\* C31: after a Test() whose last invocation attempt ended in an error (of
\* the describe step, of Invoke, of decoding or of the validation) Passed is
\* false, whatever an earlier Test() on the instance did.
C31_PassedIsOfLastTest ==
    (/\ TestReturned
     /\ Attempts # <<>>
     /\ Attempts[Len(Attempts)].err # NoErr)
      => ~ft.Passed

\* C32: the log has a "tests passed" entry only for an attempt whose results
\* checkResults accepted: as many such entries as accepts.
C32_TestsPassedOnlyWhenAccepted ==
    LogCount("tests passed") = Count(trace, "accept")

\* C33: after a delete request that was accepted, made by Test() or by
\* DeleteStack(), the created-flag is false.
C33_AcceptedDeleteResetsFlag ==
    (/\ pc = "ready"
     /\ answers # <<>>
     /\ LastAnswer.call = "delete"
     /\ LastAnswer.err = NoErr)
      => ~ft.stackCreated

\* C34: no create request is submitted while the created-flag is true.
C34_NoCreateWhileCreated ==
    [][ Count(trace', "create") > Count(trace, "create")
          => ~ft.stackCreated ]_vars

\* a log entry that describes the error e: one that carries e as its text,
\* or, for the error of a rejected result list, the validator's message
\* about the offending result
Describes(m, e) ==
    \/ m.s = e
    \/ /\ e = <<"tests failed or took too long">>
       /\ m.fmt \in {"test failed: %s", "test took too long: %s",
                     "no test results to check"}

\* C35: when Test() returns a non-nil error, the log has an entry that
\* describes that error.
C35_ReturnedErrorIsLogged ==
    (TestReturned /\ ret.err # NoErr)
      => \E k \in 1..Len(ft.log) : Describes(ft.log[k].msg, ret.err)

C37_FailedWaitLeavesIdUnflagged ==
    /\ (/\ pc = "ready"
        /\ ret.op \in {"Test", "CreateStack"}
        /\ answers # <<>>
        /\ LastAnswer.call = "poll"
        /\ LastAnswer.err # NoErr)
         => /\ \E rando \in Randos :
                 ft.StackName = StackIdOf(ft.stackPrefix \o rando)
            /\ ~ft.stackCreated
    /\ (/\ ret.op = "DeleteStack"
        /\ answers # <<>>
        /\ LastAnswer.call = "delete")
         => LastAnswer.data = ft.StackName

\* the wait of the running or last operation is over and did not end in an
\* error: CreateStack goes on to read the stack descriptor
WaitSucceeded ==
    /\ Count(Cur, "sleep:create") > 0
    /\ pc # "watch"
    /\ polled = <<>> \/ polled[Len(polled)] \notin {"ERR", "EMPTY"}

\* C38: no operation on a tester ends in a nil dereference; a readiness
\* poll that fails or reports no stack makes the operation return that
\* error; and when the wait is over without an error, some poll has reported
\* a stack, and it is the descriptor of that stack whose name CreateStack
\* reads.
C38_WaitNeverCrashes ==
    /\ pc = "panic" => op = "none"
    /\ (/\ op \in {"Test", "CreateStack"}
        /\ answers # <<>>
        /\ LastAnswer.call = "poll"
        /\ LastAnswer.err # NoErr)
         => /\ pc = "ready"
            /\ ret = [op |-> op, err |-> LastAnswer.err]
    /\ (op \in {"Test", "CreateStack"} /\ WaitSucceeded)
         => /\ stack # NilStack
            /\ \E k \in 1..Len(polled) : polled[k] = stack.StackStatus
            /\ op = "CreateStack" => ft.StackName = stack.StackName

\* a wait that ran out of tries: CreateStack read the descriptor of the last
\* poll
C38_Witness ==
    /\ op = "CreateStack"
    /\ pc = "ready"
    /\ Count(Cur, "timeout") = 1
    /\ Len(polled) = maxtries
    /\ stack # NilStack
    /\ stack.StackStatus = "CREATE_IN_PROGRESS"
    /\ ft.StackName = stack.StackName
    /\ ret.err = NoErr

====
